---- MODULE Spec2Model ----
(***************************************************************************)
(* A model of the cxx bridge runtime header (include/cxx.h) and of the     *)
(* C++ half of its conformance tests (tests/ffi/tests.cc).                 *)
(*                                                                         *)
(*   SpecBox   rust::Box<T>: every constructor, assignment, the            *)
(*             destructor, in_place, from_raw, into_raw and mutation       *)
(*             through operator*, over a small heap.                       *)
(*   SpecTests the C++ functions the other side calls through the bridge   *)
(*             (c_try_..., c_fail_..., c_take_...) and cxx_run_test, one   *)
(*             statement at a time, against an other side that answers as  *)
(*             the spec says or wrongly.                                   *)
(***************************************************************************)
EXTENDS Integers, Sequences, FiniteSets, TLC

\* ------------------------------------------------------------------ bounds
NBox == 2
NAddr == 3
\* Longest sequence handed to c_take_vec_u8 / c_take_vec_shared.
MaxLen == 4

Boxes == 1..NBox
Addrs == 1..NAddr
\* The pointee values the tests use (tests.cc: Shared{2020}, set(2021)).
Vals == {2020, 2021}
\* nullptr
Null == 0

VARIABLES box, heap, raw, last, doubleDrop

\* tests.cc: where control is (pc), the function the other side called (fn)
\* and its argument (arg), the exception in flight (exc), what the body
\* returned (ret), what the calling side received (result), the "mark
\* correct" signal (correct); and of cxx_run_test: the statement it is at
\* (line), the other side's last answer (resp), the boundary calls it made
\* (trace), the assertions that passed (passed), the one that failed
\* (failedAt), its local r2, its return value (msg), and whether the other
\* side has answered as the spec says so far (conform).
VARIABLES pc, fn, arg, exc, ret, result, correct,
          line, resp, trace, passed, failedAt, r2, msg, conform

bvars == <<box, heap, raw, last, doubleDrop>>
cvars == <<pc, fn, arg, exc, ret, result, correct>>
rvars == <<line, resp, trace, passed, failedAt, r2, msg, conform>>
tvars == <<cvars, rvars>>
vars == <<bvars, tvars>>

\* ------------------------------------------------------------ Box<T> state
\* A slot of automatic storage that holds no Box object (never constructed,
\* or destroyed).
NoBox == [alive |-> FALSE, ptr |-> Null]
\* A heap cell that holds no allocation.
FreeCell == [live |-> FALSE, val |-> 2020]

FreeAddrs == {a \in Addrs : ~heap[a].live}
LiveAddrs == {a \in Addrs : heap[a].live}
\* The operation performed last: its name, the Box it ran on (tgt), the other
\* Box (src), and its argument or result (arg: the value given, the raw
\* pointer given or returned, or the pointer the target held before an
\* assignment).
NoOp == [op |-> "none", tgt |-> 0, src |-> 0, arg |-> 0]
Op(o, t, s, x) == [op |-> o, tgt |-> t, src |-> s, arg |-> x]

\* void uninit(): points this->ptr at fresh uninitialised storage `a` obtained
\* from the producing side's allocator.
uninit(bx, b, a) == [bx EXCEPT ![b] = [alive |-> TRUE, ptr |-> a]]

\* ::new (this->ptr) T(val): constructs the pointee in the storage at `a`.
PlacementNew(h, a, v) == [h EXCEPT ![a] = [live |-> TRUE, val |-> v]]

\* void drop(): destroys the pointee in place and frees its storage through
\* the producing side's allocator.
drop(h, p) == [h EXCEPT ![p] = FreeCell]

\* drop() of storage that holds no live allocation is a double free.
DoubleFree(h, p) == ~h[p].live

\* const T &operator*() const: the pointee of a non-empty Box.
Deref(b) == heap[box[b].ptr].val

\* explicit Box(const T &val)
BoxFromValue(b, v) ==
    /\ ~box[b].alive
    /\ \E a \in FreeAddrs :
         /\ box' = uninit(box, b, a)
         /\ heap' = PlacementNew(heap, a, v)
    /\ last' = Op("from_value", b, 0, v)
    /\ UNCHANGED <<raw, doubleDrop>>

\* explicit Box(T &&val)
BoxFromRvalue(b, v) ==
    /\ ~box[b].alive
    /\ \E a \in FreeAddrs :
         /\ box' = uninit(box, b, a)
         /\ heap' = PlacementNew(heap, a, v)
    /\ last' = Op("from_rvalue", b, 0, v)
    /\ UNCHANGED <<raw, doubleDrop>>

\* static Box in_place(Fields &&... fields)
in_place(b, v) ==
    /\ ~box[b].alive
    /\ \E a \in FreeAddrs :
         /\ box' = uninit(box, b, a)
         /\ heap' = PlacementNew(heap, a, v)
    /\ last' = Op("in_place", b, 0, v)
    /\ UNCHANGED <<raw, doubleDrop>>

\* A copy constructor that copies the pointer instead of the pointee.
CopyConstructShallow(b, o) ==
    /\ ~box[b].alive
    /\ box[o].alive /\ box[o].ptr # Null
    /\ box' = [box EXCEPT ![b] = [alive |-> TRUE, ptr |-> box[o].ptr]]
    /\ last' = Op("copy_construct", b, o, 0)
    /\ UNCHANGED <<heap, raw, doubleDrop>>

\* Box(const Box &other) : Box(*other) {}
\* *other dereferences other.ptr: other must not be empty.
CopyConstruct(b, o) ==
    /\ ~box[b].alive
    /\ box[o].alive /\ box[o].ptr # Null
    /\ \E a \in FreeAddrs :
         /\ box' = uninit(box, b, a)
         /\ heap' = PlacementNew(heap, a, Deref(o))
    /\ last' = Op("copy_construct", b, o, 0)
    /\ UNCHANGED <<raw, doubleDrop>>

\* A move constructor that forgets `other.ptr = nullptr`.
MoveConstructKeepsSource(b, o) ==
    /\ ~box[b].alive
    /\ box[o].alive
    /\ box' = [box EXCEPT ![b] = [alive |-> TRUE, ptr |-> box[o].ptr]]
    /\ last' = Op("move_construct", b, o, 0)
    /\ UNCHANGED <<heap, raw, doubleDrop>>

\* Box(Box &&other) noexcept : ptr(other.ptr) { other.ptr = nullptr; }
MoveConstruct(b, o) ==
    /\ ~box[b].alive
    /\ box[o].alive
    /\ box' = [box EXCEPT ![b] = [alive |-> TRUE, ptr |-> box[o].ptr],
                          ![o].ptr = Null]
    /\ last' = Op("move_construct", b, o, 0)
    /\ UNCHANGED <<heap, raw, doubleDrop>>

\* A copy assignment that always takes the allocating branch.
CopyAssignAlwaysAllocates(b, o) ==
    /\ box[b].alive /\ box[o].alive
    /\ IF b # o
         THEN /\ box[o].ptr # Null
              /\ \E a \in FreeAddrs :
                   /\ box' = uninit(box, b, a)
                   /\ heap' = PlacementNew(heap, a, Deref(o))
         ELSE UNCHANGED <<box, heap>>
    /\ last' = Op("copy_assign", b, o, box[b].ptr)
    /\ UNCHANGED <<raw, doubleDrop>>

\* Box &operator=(const Box &other)
\* Unless this == &other, *other is dereferenced: other must not be empty.
CopyAssign(b, o) ==
    /\ box[b].alive /\ box[o].alive
    /\ IF b # o
         THEN /\ box[o].ptr # Null
              /\ IF box[b].ptr # Null
                   THEN /\ heap' = [heap EXCEPT ![box[b].ptr].val = Deref(o)]
                        /\ box' = box
                   ELSE \E a \in FreeAddrs :
                          /\ box' = uninit(box, b, a)
                          /\ heap' = PlacementNew(heap, a, Deref(o))
         ELSE UNCHANGED <<box, heap>>
    /\ last' = Op("copy_assign", b, o, box[b].ptr)
    /\ UNCHANGED <<raw, doubleDrop>>

\* A move assignment that overwrites this->ptr without dropping the old value.
MoveAssignNoDrop(b, o) ==
    LET b1 == [box EXCEPT ![b].ptr = box[o].ptr]
    IN  /\ box[b].alive /\ box[o].alive
        /\ box' = [b1 EXCEPT ![o].ptr = Null]
        /\ last' = Op("move_assign", b, o, box[b].ptr)
        /\ UNCHANGED <<heap, raw, doubleDrop>>

\* Box &operator=(Box &&other) noexcept
MoveAssign(b, o) ==
    LET dropped == box[b].ptr # Null
        h1 == IF dropped THEN drop(heap, box[b].ptr) ELSE heap
        b1 == [box EXCEPT ![b].ptr = box[o].ptr]
    IN  /\ box[b].alive /\ box[o].alive
        /\ heap' = h1
        /\ box' = [b1 EXCEPT ![o].ptr = Null]
        /\ doubleDrop' = (doubleDrop \/ (dropped /\ DoubleFree(heap, box[b].ptr)))
        /\ last' = Op("move_assign", b, o, box[b].ptr)
        /\ UNCHANGED raw

\* A destructor that never calls drop().
DestroyNoDrop(b) ==
    /\ box[b].alive
    /\ box' = [box EXCEPT ![b] = NoBox]
    /\ last' = Op("destroy", b, 0, 0)
    /\ UNCHANGED <<heap, raw, doubleDrop>>

\* ~Box() noexcept
Destroy(b) ==
    LET dropped == box[b].ptr # Null
    IN  /\ box[b].alive
        /\ heap' = IF dropped THEN drop(heap, box[b].ptr) ELSE heap
        /\ doubleDrop' = (doubleDrop \/ (dropped /\ DoubleFree(heap, box[b].ptr)))
        /\ box' = [box EXCEPT ![b] = NoBox]
        /\ last' = Op("destroy", b, 0, 0)
        /\ UNCHANGED raw

\* T &operator*() noexcept, used to assign to the pointee: *b = v.
\* Dereferences this->ptr: the Box must not be empty.
DerefAssign(b, v) ==
    /\ box[b].alive /\ box[b].ptr # Null
    /\ heap' = [heap EXCEPT ![box[b].ptr].val = v]
    /\ last' = Op("deref_assign", b, 0, v)
    /\ UNCHANGED <<box, raw, doubleDrop>>

\* static Box from_raw(T *raw) noexcept
\* `p` is a pointer an into_raw call returned and that has not been handed to
\* from_raw since.
from_raw(b, p) ==
    /\ ~box[b].alive
    /\ p \in raw
    /\ box' = [box EXCEPT ![b] = [alive |-> TRUE, ptr |-> p]]
    /\ raw' = raw \ {p}
    /\ last' = Op("from_raw", b, 0, p)
    /\ UNCHANGED <<heap, doubleDrop>>

\* An into_raw that returns the pointer but forgets `this->ptr = nullptr`.
into_rawKeepsPtr(b) ==
    /\ box[b].alive
    /\ raw' = raw \cup {box[b].ptr}
    /\ last' = Op("into_raw", b, 0, box[b].ptr)
    /\ UNCHANGED <<box, heap, doubleDrop>>

\* T *into_raw() noexcept
into_raw(b) ==
    /\ box[b].alive
    /\ raw' = raw \cup {box[b].ptr}
    /\ box' = [box EXCEPT ![b].ptr = Null]
    /\ last' = Op("into_raw", b, 0, box[b].ptr)
    /\ UNCHANGED <<heap, doubleDrop>>

\* extern "C" tests::R *cxx_test_suite_get_box() noexcept: the producing side
\* boxes a value and returns the pointer of its own into_raw.
cxx_test_suite_get_box(v) ==
    /\ \E a \in FreeAddrs :
         /\ heap' = PlacementNew(heap, a, v)
         /\ raw' = raw \cup {a}
         /\ last' = Op("get_box", 0, 0, a)
    /\ UNCHANGED <<box, doubleDrop>>

\* ------------------------------------------------- tests.cc: the C++ side
\* The elements of the byte sequences: the test data 86, 75, 30, 9 and two
\* larger bytes.
ByteVals == {9, 30, 75, 86, 200, 228}

\* A size_t (Shared::z) as 16-bit limbs: lo + 2^16 * hi + 2^32 * top.
W16 == 2^16
Z(lo, hi, top) == [lo |-> lo, hi |-> hi, top |-> top]
\* The z fields: the test data 1010 and 1011, and 2022, 2^32 - 1 and 2^32.
ZVals == {Z(1010, 0, 0), Z(1011, 0, 0), Z(2022, 0, 0),
          Z(W16 - 1, W16 - 1, 0), Z(0, 0, 1)}

SeqsUpTo(S, n) == UNION {[1..k -> S] : k \in 0..n}

NoArg == [bytes |-> <<>>, structs |-> <<>>, n |-> 0]
NoExc == [type |-> "", what |-> ""]
NoResult == [kind |-> "none", val |-> "", what |-> ""]
\* const char *: nullptr, or the text of a failed ASSERT (its expression and
\* its __LINE__).
NullMsg == [expr |-> "", line |-> 0]
\* What a function of the other side answers: a value, or (a fallible one) an
\* error with its text.
Ok(v) == [ok |-> TRUE, val |-> v, what |-> ""]
Err(w) == [ok |-> FALSE, val |-> "", what |-> w]
NoResp == [ok |-> TRUE, val |-> "", what |-> ""]

\* The functions of tests.cc modelled here, each called through a boundary
\* shim that catches what the body throws.
Fallible == {"c_try_return_void", "c_try_return_primitive",
             "c_fail_return_primitive", "c_try_return_string",
             "c_fail_return_string"}
Takers == {"c_take_primitive", "c_take_vec_u8", "c_take_vec_shared"}

ArgsOf(f) ==
    IF f = "c_take_primitive" THEN {[NoArg EXCEPT !.n = v] : v \in Vals}
    ELSE IF f = "c_take_vec_u8"
      THEN {[NoArg EXCEPT !.bytes = v] : v \in SeqsUpTo(ByteVals, MaxLen)}
    ELSE IF f = "c_take_vec_shared"
      THEN {[NoArg EXCEPT !.structs = v] : v \in SeqsUpTo(ZVals, MaxLen)}
    ELSE {NoArg}

\* The other side calls f(a) and control enters the shim.
RustCalls(f, a) ==
    /\ pc = "rust"
    /\ pc' = "shim"
    /\ fn' = f /\ arg' = a
    /\ UNCHANGED <<exc, ret, result, correct, rvars>>

\* The other side has looked at what the call gave it: it clears the signal
\* and is ready for its next call.
RustResumes ==
    /\ pc = "back"
    /\ pc' = "rust" /\ fn' = "" /\ arg' = NoArg /\ exc' = NoExc
    /\ ret' = "" /\ result' = NoResult /\ correct' = FALSE
    /\ line' = 0 /\ resp' = NoResp /\ trace' = <<>> /\ passed' = {}
    /\ failedAt' = 0 /\ r2' = "" /\ msg' = NullMsg /\ conform' = TRUE

\* The body returns v.
Return(v) ==
    /\ ret' = v
    /\ pc' = "returning"
    /\ UNCHANGED <<fn, arg, exc, result, rvars>>

\* A throw that is lost: the function returns as if nothing had happened.
ThrowSwallowed(what) ==
    /\ Return("") /\ UNCHANGED correct

\* throw std::logic_error(what)
Throw(what) ==
    /\ exc' = [type |-> "std::logic_error", what |-> what]
    /\ pc' = "unwinding"
    /\ UNCHANGED <<fn, arg, ret, result, correct, rvars>>

\* void c_try_return_void() {}
c_try_return_void ==
    /\ pc = "shim" /\ fn = "c_try_return_void"
    /\ Return("") /\ UNCHANGED correct

\* size_t c_try_return_primitive() { return 2020; }
c_try_return_primitive ==
    /\ pc = "shim" /\ fn = "c_try_return_primitive"
    /\ Return("2020") /\ UNCHANGED correct

\* size_t c_fail_return_primitive() { throw std::logic_error("logic error"); }
c_fail_return_primitive ==
    /\ pc = "shim" /\ fn = "c_fail_return_primitive"
    /\ Throw("logic error")

\* std::unique_ptr<std::string> c_try_return_string()
c_try_return_string ==
    /\ pc = "shim" /\ fn = "c_try_return_string"
    /\ Return("ok") /\ UNCHANGED correct

\* std::unique_ptr<std::string> c_fail_return_string()
c_fail_return_string ==
    /\ pc = "shim" /\ fn = "c_fail_return_string"
    /\ Throw("logic error getting string")

\* void c_take_primitive(size_t n)
c_take_primitive ==
    /\ pc = "shim" /\ fn = "c_take_primitive"
    /\ correct' = (correct \/ arg.n = 2020)
    /\ Return("")

\* static_cast<std::vector<T>>(v): a new sequence of v.size() elements, each
\* a copy of the element of v at the same index.
ToStdVector(v) == [i \in 1..Len(v) |-> v[i]]

\* std::accumulate(first, last, 0): the int sum of the elements.
RECURSIVE accumulate(_)
accumulate(cv) ==
    IF cv = <<>> THEN 0 ELSE Head(cv) + accumulate(Tail(cv))

\* uint8_t sum = <int>: the conversion keeps the low eight bits.
ToUint8(n) == n % 256

\* uint32_t sum; sum += z with z a size_t: the addition is made in size_t and
\* the assignment keeps the low 32 bits.
AddU32(sum, z) ==
    LET l == sum.lo + z.lo
        h == sum.hi + z.hi + (l \div W16)
    IN  Z(l % W16, h % W16, 0)

\* for (auto i: cv) { sum += i.z; } from uint32_t sum = 0
RECURSIVE SumZ(_, _)
SumZ(sum, cv) ==
    IF cv = <<>> THEN sum ELSE SumZ(AddU32(sum, Head(cv)), Tail(cv))

\* void c_take_vec_u8(const ::rust::Vec<uint8_t>& v)
c_take_vec_u8 ==
    LET cv == ToStdVector(arg.bytes)
        sum == ToUint8(accumulate(cv))
    IN  /\ pc = "shim" /\ fn = "c_take_vec_u8"
        /\ correct' = (correct \/ sum = 200)
        /\ Return("")

\* void c_take_vec_shared(const ::rust::Vec<Shared>& v)
c_take_vec_shared ==
    LET cv == ToStdVector(arg.structs)
        sum == SumZ(Z(0, 0, 0), cv)
    IN  /\ pc = "shim" /\ fn = "c_take_vec_shared"
        /\ correct' = (correct \/ sum = Z(2021, 0, 0))
        /\ Return("")

\* The shim's normal exit: the caller receives the body's result.
ShimReturn ==
    /\ pc = "returning"
    /\ result' = [kind |-> "ok", val |-> ret, what |-> ""]
    /\ pc' = "back"
    /\ UNCHANGED <<fn, arg, exc, ret, correct, rvars>>

\* The shim's catch: the text of the exception is handed to the caller as an
\* error value and the exception object ends in the handler.
ShimCatch ==
    /\ pc = "unwinding"
    /\ result' = [kind |-> "err", val |-> "", what |-> exc.what]
    /\ exc' = NoExc
    /\ pc' = "back"
    /\ UNCHANGED <<fn, arg, ret, correct, rvars>>

\* --------------------------------------------------- tests.cc: cxx_run_test
\* The statements of cxx_run_test, by source line, in program order.
RunLines == <<234, 235, 236, 237, 238, 239, 240, 241,
              243, 244, 245, 246, 247, 248, 250, 251,
              254, 256, 257, 259,
              262, 263, 264, 265, 266, 267, 269>>

\* The statement that follows `l` when `l` completes normally. The handler at
\* 259 is entered only by the catch; the try block is left for 262.
Succ(l) ==
    IF l \in {257, 259} THEN 262
    ELSE LET i == CHOOSE k \in 1..Len(RunLines) : RunLines[k] = l
         IN  RunLines[i + 1]

\* The functions of the other side each statement calls, in order.
Calls(l) ==
    CASE l = 234 -> <<"r_return_primitive">>
      [] l = 235 -> <<"r_return_shared">>
      [] l = 236 -> <<"r_return_box", "cxx_test_suite_r_is_correct">>
      [] l = 237 -> <<"r_return_unique_ptr">>
      [] l = 238 -> <<"r_return_ref">>
      [] l = 239 -> <<"r_return_str">>
      [] l = 240 -> <<"r_return_rust_string">>
      [] l = 241 -> <<"r_return_unique_ptr_string">>
      [] l = 243 -> <<"r_take_primitive">>
      [] l = 244 -> <<"r_take_shared">>
      [] l = 245 -> <<"r_take_unique_ptr">>
      [] l = 246 -> <<"r_take_ref_c">>
      [] l = 247 -> <<"r_take_str">>
      [] l = 248 -> <<"r_take_sliceu8">>
      [] l = 250 -> <<"r_take_rust_string">>
      [] l = 251 -> <<"r_take_unique_ptr_string">>
      [] l = 254 -> <<"r_try_return_primitive">>
      [] l = 256 -> <<"r_fail_return_primitive">>
      [] l = 262 -> <<"r_return_r2">>
      [] l \in {263, 265, 267} -> <<"get">>
      [] l \in {264, 266} -> <<"set">>
      [] l = 269 -> <<"cxx_test_suite_set_correct">>
      [] OTHER -> <<>>

\* #x: the text of the asserted expression.
Expr(l) ==
    CASE l = 234 -> "r_return_primitive() == 2020"
      [] l = 235 -> "r_return_shared().z == 2020"
      [] l = 236 -> "cxx_test_suite_r_is_correct(&*r_return_box())"
      [] l = 237 -> "r_return_unique_ptr()->get() == 2020"
      [] l = 238 -> "r_return_ref(Shared{2020}) == 2020"
      [] l = 239 -> "std::string(r_return_str(Shared{2020})) == \"2020\""
      [] l = 240 -> "std::string(r_return_rust_string()) == \"2020\""
      [] l = 241 -> "*r_return_unique_ptr_string() == \"2020\""
      [] l = 254 -> "r_try_return_primitive() == 2020"
      [] l = 257 -> "false"
      [] l = 259 -> "std::strcmp(e.what(), \"rust error\") == 0"
      [] l = 263 -> "r2->get() == 2020"
      [] l = 264 -> "r2->set(2021) == 2021"
      [] l = 265 -> "r2->get() == 2021"
      [] l = 266 -> "r2->set(2020) == 2020"
      [] l = 267 -> "r2->get() == 2020"
      [] OTHER -> ""

\* The value each ASSERT compares the other side's answer with.
Expected(l) ==
    CASE l = 236 -> "true"
      [] l = 259 -> "rust error"
      [] l \in {264, 265} -> "2021"
      [] OTHER -> "2020"

\* What the other side may answer to the call of statement `l`: what the
\* spec says it answers, or something else of the same type.
Answers(l) ==
    IF l = 236 THEN {"true", "false"} ELSE {"2020", "2021"}
\* A fallible function of the other side returns a value or fails with a
\* message.
FallibleAnswers ==
    {Ok("2020"), Ok("2021"), Err("rust error"), Err("other error")}
\* The answers of an other side that conforms to the spec.
Conformant(l) ==
    IF l = 256 THEN Err("rust error") ELSE Ok(Expected(l))

\* The other side calls cxx_run_test().
RustCallsRunTest ==
    /\ pc = "rust"
    /\ pc' = "run" /\ fn' = "cxx_run_test" /\ line' = 234
    /\ UNCHANGED <<arg, exc, ret, result, correct>>
    /\ UNCHANGED <<resp, trace, passed, failedAt, r2, msg, conform>>

\* An ASSERT without its return: the run goes on after a failed assertion.
ASSERTKeepsGoing(l, x, n) ==
    /\ passed' = (IF x THEN passed \cup {l} ELSE passed)
    /\ line' = Succ(l)
    /\ r2' = n
    /\ UNCHANGED <<pc, msg, failedAt>>

\* #define ASSERT(x) do { if (!(x)) { return "Assertion failed: `" #x "`, "
\* __FILE__ ":" TOSTRING(__LINE__); } } while (false)
\* `n` is what r2 holds when the statement is done; returning from the
\* function ends the lifetime of r2.
ASSERT(l, x, n) ==
    IF x
      THEN /\ passed' = passed \cup {l}
           /\ line' = Succ(l)
           /\ r2' = n
           /\ UNCHANGED <<pc, msg, failedAt>>
      ELSE /\ msg' = [expr |-> Expr(l), line |-> l]
           /\ failedAt' = l
           /\ pc' = "back" /\ line' = 0
           /\ r2' = ""
           /\ UNCHANGED passed

\* The statement at `l` has called the other side and got the answer `r`.
Called(l, r) ==
    /\ trace' = trace \o Calls(l)
    /\ resp' = r
    /\ conform' = (conform /\ r = Conformant(l))

\* Lines 234-241: the eight checks of the values the other side returns.
RunAssert ==
    /\ pc = "run" /\ line \in 234..241
    /\ \E v \in Answers(line) :
         /\ Called(line, Ok(v))
         /\ ASSERT(line, v = Expected(line), r2)
    /\ UNCHANGED <<fn, arg, exc, ret, result, correct>>

\* Lines 243-252: the eight r_take_* calls.
RunTake ==
    /\ pc = "run" /\ line \in 243..251
    /\ trace' = trace \o Calls(line)
    /\ line' = Succ(line)
    /\ UNCHANGED <<cvars, resp, passed, failedAt, r2, msg, conform>>

\* Line 254: ASSERT(r_try_return_primitive() == 2020); outside any try
\* block. A rust::Error thrown here leaves a noexcept function:
\* std::terminate.
RunTryReturn ==
    /\ pc = "run" /\ line = 254
    /\ \E r \in FallibleAnswers :
         /\ Called(254, r)
         /\ IF r.ok
              THEN /\ ASSERT(254, r.val = Expected(254), r2)
                   /\ UNCHANGED exc
              ELSE /\ exc' = [type |-> "rust::Error", what |-> r.what]
                   /\ pc' = "terminated"
                   /\ UNCHANGED <<line, passed, failedAt, r2, msg>>
    /\ UNCHANGED <<fn, arg, ret, result, correct>>

\* A failing call that also returns: control reaches the next statement of
\* the try block.
RunFailCallFallsThrough ==
    /\ pc = "run" /\ line = 256
    /\ \E r \in FallibleAnswers :
         /\ Called(256, r)
         /\ line' = 257
    /\ UNCHANGED <<cvars, passed, failedAt, r2, msg>>

\* Lines 255-256, 258: try { r_fail_return_primitive(); ... } catch (const
\* rust::Error &e): the call returns, or throws into the handler.
RunFailCall ==
    /\ pc = "run" /\ line = 256
    /\ \E r \in FallibleAnswers :
         /\ Called(256, r)
         /\ line' = (IF r.ok THEN 257 ELSE 259)
    /\ UNCHANGED <<cvars, passed, failedAt, r2, msg>>

\* Line 257: ASSERT(false);
RunAssertFalse ==
    /\ pc = "run" /\ line = 257
    /\ ASSERT(257, FALSE, r2)
    /\ UNCHANGED <<fn, arg, exc, ret, result, correct, resp, trace, conform>>

\* Line 259: ASSERT(std::strcmp(e.what(), "rust error") == 0);
RunCatchAssert ==
    /\ pc = "run" /\ line = 259
    /\ ASSERT(259, resp.what = Expected(259), r2)
    /\ UNCHANGED <<fn, arg, exc, ret, result, correct, resp, trace, conform>>

\* Line 262: auto r2 = r_return_r2(2020);
RunLetR2 ==
    /\ pc = "run" /\ line = 262
    /\ \E n \in Answers(262) :
         /\ Called(262, Ok(n))
         /\ r2' = n
    /\ line' = Succ(262)
    /\ UNCHANGED <<cvars, passed, failedAt, msg>>

\* Lines 263, 265, 267: ASSERT(r2->get() == ...);
RunR2Get ==
    /\ pc = "run" /\ line \in {263, 265, 267}
    /\ Called(line, Ok(r2))
    /\ ASSERT(line, r2 = Expected(line), r2)
    /\ UNCHANGED <<fn, arg, exc, ret, result, correct>>

\* Lines 264, 266: ASSERT(r2->set(...) == ...); set stores a value and
\* returns what it stored.
RunR2Set ==
    /\ pc = "run" /\ line \in {264, 266}
    /\ \E n \in Answers(line) :
         /\ Called(line, Ok(n))
         /\ ASSERT(line, n = Expected(line), n)
    /\ UNCHANGED <<fn, arg, exc, ret, result, correct>>

\* Lines 269-270: cxx_test_suite_set_correct(); return nullptr;
RunFinish ==
    /\ pc = "run" /\ line = 269
    /\ trace' = trace \o Calls(269)
    /\ correct' = TRUE
    /\ msg' = NullMsg
    /\ pc' = "back" /\ line' = 0
    /\ r2' = ""
    /\ UNCHANGED <<fn, arg, exc, ret, result, resp, passed, failedAt, conform>>

\* ---------------------------------------------------------- specifications
\* No Box has been constructed and nothing is allocated; control is on the
\* other side and no call is in progress.
Init ==
    /\ box = [b \in Boxes |-> NoBox]
    /\ heap = [a \in Addrs |-> FreeCell]
    /\ raw = {}
    /\ last = NoOp
    /\ doubleDrop = FALSE
    /\ pc = "rust"
    /\ fn = ""
    /\ arg = NoArg
    /\ exc = NoExc
    /\ ret = ""
    /\ result = NoResult
    /\ correct = FALSE
    /\ line = 0
    /\ resp = NoResp
    /\ trace = <<>>
    /\ passed = {}
    /\ failedAt = 0
    /\ r2 = ""
    /\ msg = NullMsg
    /\ conform = TRUE

NextBox ==
    \/ \E b \in Boxes, v \in Vals : BoxFromValue(b, v) /\ UNCHANGED tvars
    \/ \E b \in Boxes, v \in Vals : BoxFromRvalue(b, v) /\ UNCHANGED tvars
    \/ \E b \in Boxes, v \in Vals : in_place(b, v) /\ UNCHANGED tvars
    \/ \E b \in Boxes, o \in Boxes : CopyConstruct(b, o) /\ UNCHANGED tvars
    \/ \E b \in Boxes, o \in Boxes : MoveConstruct(b, o) /\ UNCHANGED tvars
    \/ \E b \in Boxes, o \in Boxes : CopyAssign(b, o) /\ UNCHANGED tvars
    \/ \E b \in Boxes, o \in Boxes : MoveAssign(b, o) /\ UNCHANGED tvars
    \/ \E b \in Boxes : Destroy(b) /\ UNCHANGED tvars
    \/ \E b \in Boxes, v \in Vals : DerefAssign(b, v) /\ UNCHANGED tvars
    \/ \E b \in Boxes, p \in Addrs \cup {Null} : from_raw(b, p) /\ UNCHANGED tvars
    \/ \E b \in Boxes : into_raw(b) /\ UNCHANGED tvars
    \/ \E v \in Vals : cxx_test_suite_get_box(v) /\ UNCHANGED tvars

SpecBox == Init /\ [][NextBox]_vars

NextTests ==
    \/ \E f \in Fallible \cup Takers :
         \E a \in ArgsOf(f) : RustCalls(f, a) /\ UNCHANGED bvars
    \/ c_try_return_void /\ UNCHANGED bvars
    \/ c_try_return_primitive /\ UNCHANGED bvars
    \/ c_fail_return_primitive /\ UNCHANGED bvars
    \/ c_try_return_string /\ UNCHANGED bvars
    \/ c_fail_return_string /\ UNCHANGED bvars
    \/ c_take_primitive /\ UNCHANGED bvars
    \/ c_take_vec_u8 /\ UNCHANGED bvars
    \/ c_take_vec_shared /\ UNCHANGED bvars
    \/ ShimReturn /\ UNCHANGED bvars
    \/ ShimCatch /\ UNCHANGED bvars
    \/ RustResumes /\ UNCHANGED bvars
    \/ RustCallsRunTest /\ UNCHANGED bvars
    \/ RunAssert /\ UNCHANGED bvars
    \/ RunTake /\ UNCHANGED bvars
    \/ RunTryReturn /\ UNCHANGED bvars
    \/ RunFailCall /\ UNCHANGED bvars
    \/ RunAssertFalse /\ UNCHANGED bvars
    \/ RunCatchAssert /\ UNCHANGED bvars
    \/ RunLetR2 /\ UNCHANGED bvars
    \/ RunR2Get /\ UNCHANGED bvars
    \/ RunR2Set /\ UNCHANGED bvars
    \/ RunFinish /\ UNCHANGED bvars

SpecTests == Init /\ [][NextTests]_vars


\* ------------------------------------------------------- Box<T> properties
AliveBoxes == {b \in Boxes : box[b].alive}
\* The allocations some Box owns, and the pointers into_raw or the producing
\* side handed out and from_raw has not taken back.
HeldPtrs == {box[b].ptr : b \in AliveBoxes} \ {Null}
Outstanding == raw \ {Null}
IsEmpty(bx, b) == bx[b].alive /\ bx[b].ptr = Null

BoxInv ==
    /\ \A b \in AliveBoxes : box[b].ptr = Null \/ heap[box[b].ptr].live
    /\ \A b \in AliveBoxes, c \in AliveBoxes :
         (b # c /\ box[b].ptr # Null) => box[b].ptr # box[c].ptr
    /\ \A b \in Boxes : ~box[b].alive => box[b].ptr = Null
    /\ HeldPtrs \cap Outstanding = {}

\* A Box that was not empty before a step is empty after it only as the
\* source of a move or the receiver of into_raw (or, moved onto itself, as
\* both ends of a move); a Box starts out empty only when it adopts an empty
\* source or a null pointer.
EmptiedOnlyByMoveOrIntoRaw ==
    \A b \in Boxes :
      (IsEmpty(box', b) /\ ~IsEmpty(box, b)) =>
         \/ last'.op \in {"move_construct", "move_assign"} /\ last'.src = b
         \/ last'.op \in {"move_construct", "move_assign"} /\ last'.tgt = b
              /\ box[last'.src].ptr = Null
         \/ last'.op = "into_raw" /\ last'.tgt = b
         \/ last'.op = "from_raw" /\ last'.tgt = b /\ last'.arg = Null

\* C1: after every Box operation each Box either holds one live pointer or is
\* empty, it became empty only by being moved from or by into_raw, and no
\* pointer is held by two Boxes (nor by a Box and an outstanding raw pointer).
C1_BoxHoldsLivePointerOrIsEmpty ==
    [][BoxInv' /\ EmptiedOnlyByMoveOrIntoRaw]_vars

\* Two Boxes alive at once after a move assignment: the target holds a live
\* pointer, the source is empty, and a raw pointer is outstanding.
C1_Witness ==
    /\ BoxInv
    /\ last.op = "move_assign" /\ last.tgt # last.src
    /\ box[last.tgt].ptr # Null /\ heap[box[last.tgt].ptr].live
    /\ IsEmpty(box, last.src)
    /\ Outstanding # {}

IsMove(l) == l.op \in {"move_construct", "move_assign"}

\* What a move of `s` into `t` does: t holds what s held, s is empty, a value
\* t owned is dropped (once: the drop is no double free), nothing is allocated
\* and no other cell changes.
MoveTransfers(t, s) ==
    LET old == box[t].ptr
        dropsOld == last'.op = "move_assign" /\ old # Null
    IN  /\ box'[t].alive /\ box'[t].ptr = box[s].ptr
        /\ IsEmpty(box', s)
        /\ LiveAddrs' = LiveAddrs \ (IF dropsOld THEN {old} ELSE {})
        /\ dropsOld => heap[old].live
        /\ doubleDrop' = doubleDrop
        /\ \A a \in LiveAddrs' : heap'[a] = heap[a]

\* C4 as stated, self-assignment included: every move, also of a Box onto
\* itself, leaves the target holding what the source held.
C4_Original_MoveAlwaysTransfers ==
    [][IsMove(last') => MoveTransfers(last'.tgt, last'.src)]_vars

\* C4 (amended): moving a source Box into a different target Box transfers
\* the pointer, empties the source, drops a value the target owned exactly
\* once and allocates nothing; a Box move-assigned to itself drops its value
\* and is left empty.
C4_MoveTransfersBetweenDistinctBoxes ==
    [][IsMove(last') =>
         IF last'.tgt # last'.src
           THEN MoveTransfers(last'.tgt, last'.src)
           ELSE /\ IsEmpty(box', last'.tgt)
                /\ LiveAddrs' = LiveAddrs \ {box[last'.tgt].ptr}
                /\ doubleDrop' = doubleDrop]_vars

\* A move assignment into a Box that owned a value, from another Box that
\* owned one.
C4_Witness ==
    /\ last.op = "move_assign" /\ last.tgt # last.src
    /\ last.arg # Null /\ ~heap[last.arg].live
    /\ box[last.tgt].ptr # Null /\ heap[box[last.tgt].ptr].live
    /\ IsEmpty(box, last.src)

IsCopy(l) == l.op \in {"copy_construct", "copy_assign"}

\* A step leaves alone every Box it does not operate on, and that Box's
\* pointee.
Untouched(k) ==
    /\ box'[k] = box[k]
    /\ box[k].ptr # Null => heap'[box[k].ptr] = heap[box[k].ptr]

\* C5: a copy gives the target its own allocation holding an equal value and
\* leaves the source Box and its pointee as they were; and whatever is done
\* later to one Box (mutation, move, into_raw, destruction) leaves every
\* other Box's pointer and pointee unchanged and live.
C5_CopyIsDeepAndIndependent ==
    [][/\ (IsCopy(last') /\ last'.tgt # last'.src) =>
            LET t == last'.tgt
                s == last'.src
            IN  /\ box'[t].alive /\ box'[t].ptr # Null
                /\ box'[t].ptr # box'[s].ptr
                /\ heap'[box'[t].ptr].live
                /\ heap'[box'[t].ptr].val = heap[box[s].ptr].val
                /\ Untouched(s) /\ heap'[box'[s].ptr].live
       /\ \A k \in AliveBoxes :
            k \notin {last'.tgt, last'.src} =>
               /\ Untouched(k)
               /\ box[k].ptr # Null => heap'[box[k].ptr].live]_vars

\* A copy and its source both alive, holding different values, after the
\* copy was mutated.
C5_Witness ==
    \E b \in AliveBoxes, c \in AliveBoxes :
      /\ b # c /\ box[b].ptr # Null /\ box[c].ptr # Null
      /\ heap[box[b].ptr].val # heap[box[c].ptr].val
      /\ last.op = "deref_assign" /\ last.tgt = b

\* C6: copy assignment into a Box that owns a value assigns in place (same
\* pointer, same live allocations); into an empty Box it makes exactly one
\* allocation holding a copy; onto itself it changes nothing.
C6_CopyAssignAllocatesOnlyWhenEmpty ==
    [][last'.op = "copy_assign" =>
         LET t == last'.tgt
             s == last'.src
         IN  IF t = s
               THEN box' = box /\ heap' = heap
               ELSE IF box[t].ptr # Null
                 THEN /\ box' = box
                      /\ LiveAddrs' = LiveAddrs
                      /\ heap'[box[t].ptr].val = heap[box[s].ptr].val
                      /\ \A a \in Addrs \ {box[t].ptr} : heap'[a] = heap[a]
                 ELSE /\ box'[t].ptr \in FreeAddrs
                      /\ LiveAddrs' = LiveAddrs \cup {box'[t].ptr}
                      /\ heap'[box'[t].ptr].val = heap[box[s].ptr].val
                      /\ \A a \in LiveAddrs : heap'[a] = heap[a]]_vars

\* A copy assignment into a Box that already owned a value.
C6_Witness ==
    /\ last.op = "copy_assign" /\ last.tgt # last.src
    /\ last.arg # Null /\ box[last.tgt].ptr = last.arg
    /\ heap[last.arg].val = heap[box[last.src].ptr].val

\* An allocation is dropped only by the destructor or the move assignment of
\* the Box that holds it.
DroppedOnlyThroughOwner ==
    \A a \in LiveAddrs :
      ~heap'[a].live =>
         /\ last'.op \in {"destroy", "move_assign"}
         /\ box[last'.tgt].ptr = a

\* C7: into_raw returns the pointer the Box held and empties the Box without
\* dropping anything; from_raw yields a Box holding the pointer it is given;
\* so from_raw straight after into_raw owns the same live value, the heap is
\* as it was, and the value is dropped only through the Box that holds it.
C7_IntoRawFromRawRoundTrip ==
    [][/\ last'.op = "into_raw" =>
            /\ last'.arg = box[last'.tgt].ptr
            /\ IsEmpty(box', last'.tgt)
            /\ last'.arg \in raw'
            /\ heap' = heap
       /\ last'.op = "from_raw" =>
            /\ box'[last'.tgt].alive /\ box'[last'.tgt].ptr = last'.arg
            /\ last'.arg \in raw /\ last'.arg \notin raw'
            /\ heap' = heap
       /\ (last.op = "into_raw" /\ last'.op = "from_raw"
             /\ last'.arg = last.arg /\ last.arg # Null) =>
            /\ box'[last'.tgt].ptr = last.arg
            /\ heap'[last.arg].live
            /\ \A b \in Boxes \ {last'.tgt} : box'[b].ptr # last.arg
       /\ DroppedOnlyThroughOwner]_vars

\* Box::from_raw(b.into_raw()): a Box holds a live pointer that into_raw just
\* returned, and the Box it came from is empty.
C7_Witness ==
    /\ last.op = "from_raw" /\ last.arg # Null
    /\ box[last.tgt].ptr = last.arg /\ heap[last.arg].live
    /\ \E b \in AliveBoxes : b # last.tgt /\ box[b].ptr = Null

Back(f) == pc = "back" /\ fn = f

C3_FallibleCallReturnsOrThrows ==
    /\ resp.ok => resp.what = ""
    /\ ~resp.ok => resp.val = ""
    /\ line = 257 => resp.ok
    /\ line = 259 => ~resp.ok /\ resp.val = ""
    /\ line = 256 => resp = Ok("2020")
    /\ line = 262 => resp = Err("rust error")
    /\ conform => line # 257 /\ pc # "terminated" /\ failedAt = 0
    /\ (conform /\ line = 259) => resp = Err("rust error")
    /\ (Back("cxx_run_test") /\ msg = NullMsg) =>
          {254, 259} \subseteq passed /\ 257 \notin passed

\* r_fail_return_primitive has thrown "rust error" and control is in the
\* handler, the other side having answered as the spec says throughout.
C3_Witness ==
    /\ pc = "run" /\ line = 259 /\ conform
    /\ resp = Err("rust error")
    /\ trace[Len(trace)] = "r_fail_return_primitive"

\* The arithmetic sum of a sequence of bytes.
RECURSIVE ExactSum(_)
ExactSum(v) == IF v = <<>> THEN 0 ELSE Head(v) + ExactSum(Tail(v))

\* The arithmetic sum of the z fields, limb by limb with carries; the top
\* limb is not cut off.
AddExact(sum, z) ==
    LET l == sum.lo + z.lo
        h == sum.hi + z.hi + (l \div W16)
    IN  Z(l % W16, h % W16, sum.top + z.top + (h \div W16))

RECURSIVE ExactSumZ(_)
ExactSumZ(v) ==
    IF v = <<>> THEN Z(0, 0, 0) ELSE AddExact(ExactSumZ(Tail(v)), Head(v))

\* C8: c_take_vec_u8 raises the signal exactly when the arithmetic sum of
\* the bytes is 200, and c_take_vec_shared exactly when the arithmetic sum of
\* the z fields is 2021.
C8_SumChecksAreExact ==
    /\ Back("c_take_vec_u8") => (correct <=> ExactSum(arg.bytes) = 200)
    /\ Back("c_take_vec_shared") =>
         (correct <=> ExactSumZ(arg.structs) = Z(2021, 0, 0))

RECURSIVE CallsOf(_)
CallsOf(ls) == IF ls = <<>> THEN <<>> ELSE Calls(Head(ls)) \o CallsOf(Tail(ls))

\* Every boundary call of a run in which every assertion passes, in order.
RunOrder == CallsOf(RunLines)
\* The calls of the statements before line l, and up to and including l.
CallsBefore(l) == CallsOf(SelectSeq(RunLines, LAMBDA k : k < l))
CallsThrough(l) == CallsOf(SelectSeq(RunLines, LAMBDA k : k <= l))
IsPrefix(a, b) == Len(a) <= Len(b) /\ a = SubSeq(b, 1, Len(a))

\* The assertions of a passing run, and all assertions.
MustPass == (234..241) \cup {254, 259} \cup (263..267)
AssertLines == MustPass \cup {257}

====
